---- MODULE Spec2Model ----
(***************************************************************************)
(* Model of the lexer of src/main.c: the growable token list               *)
(* (create_token_list, add_token) and the scanner lex().                   *)
(*                                                                         *)
(* Characters are C `char` values of an 8-bit, signed-char build (the      *)
(* x86 ABI): a byte b read by fgetc() is stored in `char c` as b when      *)
(* b < 128 and as b - 256 otherwise, so the byte 0xFF compares equal to    *)
(* EOF.  Bytes 128..254 are left out of the sources: passing them to the   *)
(* <ctype.h> predicates is outside what the C standard defines.            *)
(* malloc() and strdup() are taken to succeed; realloc() may fail, which   *)
(* is the one allocation failure the code tests for.                       *)
(* One action is one iteration of the scanning loop of lex().              *)
(***************************************************************************)
EXTENDS Integers, Sequences, FiniteSets, TLC

(* ------------------------------ bounds -------------------------------- *)
\* longest source of the exhaustive source set
MaxLen == 4
\* largest initial capacity and number of appends of the token-list driver
MaxCap == 3
MaxAppends == 7

(* ------------------------- program constants -------------------------- *)
\* char buffer[256]
BufSize == 256
\* create_token_list(10)
InitCapacity == 10
\* <stdio.h> EOF as compared in the loop condition of lex()
EOF == 0 - 1

(* ----------------------------- characters ----------------------------- *)
\* The character codes (ASCII) of the characters the sources are built from.
Code ==
  [s \in {"NUL", "\t", "\n", " ", "(", ")", "0", "1", "2", "3", ";", "=", "@",
          "I", "a", "e", "g", "i", "m", "n", "r", "t", "u", "x", "{", "}", "0xFF"} |->
     CASE s = "NUL" -> 0   [] s = "\t" -> 9   [] s = "\n" -> 10  [] s = " " -> 32
       [] s = "(" -> 40    [] s = ")" -> 41   [] s = "0" -> 48   [] s = "1" -> 49
       [] s = "2" -> 50    [] s = "3" -> 51   [] s = ";" -> 59   [] s = "=" -> 61
       [] s = "@" -> 64    [] s = "I" -> 73   [] s = "a" -> 97   [] s = "e" -> 101
       [] s = "g" -> 103   [] s = "i" -> 105  [] s = "m" -> 109  [] s = "n" -> 110
       [] s = "r" -> 114   [] s = "t" -> 116  [] s = "u" -> 117  [] s = "x" -> 120
       [] s = "{" -> 123   [] s = "}" -> 125  [] s = "0xFF" -> 255]

\* A C string literal without its terminator: the codes of its characters.
Str(s) == [k \in 1..Len(s) |-> Code[s[k]]]

\* <ctype.h> in the "C" locale; each is false of EOF.
\* mutant of isspace: only the space character counts as whitespace
isspace_space_only(c) == c = 32

isspace(c) == c \in {9, 10, 11, 12, 13, 32}
isalpha(c) == c \in (65..90) \cup (97..122)
isdigit(c) == c \in 48..57
isalnum(c) == isalpha(c) \/ isdigit(c)

AlnumChars == {c \in 0..127 : isalnum(c)}
DigitChars == {c \in 0..127 : isdigit(c)}

\* The conversion of fgetc()'s int result to `char c`.
ToChar(v) == IF v >= 128 THEN v - 256 ELSE v

(* ------------------------------ C strings ----------------------------- *)
\* the least element of a non-empty set of integers
Least(S) == CHOOSE k \in S : \A j \in S : k <= j

\* The string a char array holds: its characters before the first NUL.
CStr(a) ==
  LET nuls == {k \in 1..Len(a) : a[k] = 0}
  IN  IF nuls = {} THEN a ELSE SubSeq(a, 1, Least(nuls) - 1)

strdup(a) == CStr(a)
\* 0 when equal; the code only tests for 0.
strcmp(a, b) == IF CStr(a) = CStr(b) THEN 0 ELSE 1

Lit(s) == Str(s) \o <<0>>


(* ------------------------------- sources ------------------------------ *)
Rep(c, n) == [k \in 1..n |-> c]

Alphabet == {Code[s] : s \in {"i", "n", "t", "2", " ", "\n", "=", ";"}}

\* every source of at most MaxLen characters over Alphabet
BoundedSources == UNION {[1..n -> Alphabet] : n \in 0..MaxLen}

SrcMain ==
  Str(<<"i", "n", "t", " ", "m", "a", "i", "n", "(", ")", " ", "{", " ",
        "r", "e", "t", "u", "r", "n", " ", "0", ";", " ", "}">>)
SrcAssign == Str(<<"x", "1", "2", "=", "3", ";">>)

ScenarioSources ==
  { SrcMain, SrcAssign,
    Str(<<"r", "e", "t", "u", "r", "n">>), Str(<<"I", "n", "t">>),
    Str(<<"i", "n", "t", "e", "g", "e", "r">>),
    Str(<<"i", "n", "t", "e", "r", "n", "a">>),
    Str(<<"r", "e", "t", "u", "r", "n", "1">>),
    Str(<<"@">>), Str(<<"NUL">>), Str(<<"a", "NUL", "1">>),
    Str(<<" ", "\t", "\n", "\n", "\t", " ">>),
    Str(<<"1", "0xFF", ";">>), Str(<<"(", "0xFF", ")">>),
    Rep(Code[";"], InitCapacity + 2), Rep(Code[";"], 2 * InitCapacity + 1) }

\* runs that fill the scratch buffer of lex() exactly, and by one more
LongSources ==
  { Rep(Code[d], n) \o t : d \in {"2", "n"}, n \in {BufSize - 1, BufSize},
                          t \in {<<>>, Str(<<";">>)} }

Sources == BoundedSources \cup ScenarioSources \cup LongSources

(* -------------------------------- state ------------------------------- *)
VARIABLES
  src,            \* the bytes of the file named by `filename`
  fopen_ok,       \* whether fopen(filename, "r") succeeds
  pc,             \* where the process is
  file,           \* the FILE: state, read position, pushed-back character
  tokens,         \* the TokenList
  buffer,         \* char buffer[256] of lex()
  buffer_index,   \* int buffer_index of lex()
  result,         \* what lex() returned: "none" (not yet), "NULL", "tokens"
  init_capacity,  \* the argument create_token_list() was called with
  appends,        \* number of add_token() calls that have returned
  ungetc_log,     \* the arguments of the ungetc() calls made so far, in order
  max_write,      \* the highest index of buffer[] written so far, -1 if none
  free_i,         \* size_t i of free_token_list()
  frees,          \* the blocks passed to free() so far, in order
  first,          \* the tokens an earlier invocation of lex() returned
  build           \* what a store past the end of buffer[] leads to in this build

vars ==
  <<src, fopen_ok, pc, file, tokens, buffer, buffer_index, result,
    init_capacity, appends, ungetc_log, max_write, free_i, frees, first, build>>

(* ------------------------------ TokenList ----------------------------- *)
NoList == [alloc |-> FALSE, storage |-> "none", tokens |-> <<>>, size |-> 0, capacity |-> 0]

create_token_list(c) ==
  [alloc |-> TRUE, storage |-> "heap", tokens |-> <<>>, size |-> 0, capacity |-> c]

\* mutant of add_token: the capacity test is > where the code has >=
add_token_late_growth(list, type, value, realloc_ok) ==
  LET full == list.size > list.capacity
      grown == IF full THEN [list EXCEPT !.capacity = 2 * @] ELSE list
  IN  IF full /\ ~realloc_ok
        THEN [list |-> [grown EXCEPT !.storage = "NULL"], exited |-> TRUE]
        ELSE [list |-> [grown EXCEPT
                          !.tokens = SubSeq(@, 1, grown.size)
                                       \o <<[type |-> type, value |-> strdup(value)]>>,
                          !.size = @ + 1],
              exited |-> FALSE]

\* mutant of add_token: after a failed realloc() the call goes on and returns
add_token_no_exit(list, type, value, realloc_ok) ==
  LET full == list.size >= list.capacity
      grown == IF full THEN [list EXCEPT !.capacity = 2 * @] ELSE list
      held == IF full /\ ~realloc_ok THEN [grown EXCEPT !.storage = "NULL"] ELSE grown
  IN  [list |-> [held EXCEPT
                   !.tokens = SubSeq(@, 1, held.size)
                                \o <<[type |-> type, value |-> strdup(value)]>>,
                   !.size = @ + 1],
       exited |-> FALSE]

\* The list after add_token(list, type, value), and whether the call ended
\* in exit(EXIT_FAILURE) instead of returning; realloc_ok is realloc()'s outcome.
add_token(list, type, value, realloc_ok) ==
  LET full == list.size >= list.capacity
      grown == IF full THEN [list EXCEPT !.capacity = 2 * @] ELSE list
  IN  IF full /\ ~realloc_ok
        THEN [list |-> [grown EXCEPT !.storage = "NULL"], exited |-> TRUE]
        ELSE [list |-> [grown EXCEPT
                          !.tokens = SubSeq(@, 1, grown.size)
                                       \o <<[type |-> type, value |-> strdup(value)]>>,
                          !.size = @ + 1],
              exited |-> FALSE]

ReallocOutcomes(list) == IF list.size >= list.capacity THEN BOOLEAN ELSE {TRUE}

(* -------------------------------- stdio ------------------------------- *)
NoFile == [state |-> "none", pos |-> 0, pushed |-> <<>>, closes |-> 0]

\* fgetc(f): the int it returns and the stream afterwards
fgetc(f) ==
  IF f.pushed # <<>>
    THEN [ret |-> Head(f.pushed), file |-> [f EXCEPT !.pushed = <<>>]]
    ELSE IF f.pos < Len(src)
           THEN [ret |-> src[f.pos + 1], file |-> [f EXCEPT !.pos = @ + 1]]
           ELSE [ret |-> EOF, file |-> f]

\* ungetc(c, f): pushes (unsigned char)c back; ungetc(EOF, f) leaves f alone
ungetc(c, f) == IF c = EOF THEN f ELSE [f EXCEPT !.pushed = <<(c + 256) % 256>>]

fclose(f) == [f EXCEPT !.state = "closed", !.closes = @ + 1]

\* what is still to be read from the stream
Rest(f) == f.pushed \o SubSeq(src, f.pos + 1, Len(src))


(* --------------------------- scratch buffer --------------------------- *)
\* a stack byte that was never written
Garbage == ToChar(170)

\* The array buffer[0..BufSize-1] is kept as its leading bytes (head) and
\* the one byte value every later element holds (fill).
At(buf, k) == IF k <= Len(buf.head) THEN buf.head[k] ELSE buf.fill

\* the whole array as a sequence
Array(buf) == [k \in 1..BufSize |-> At(buf, k)]

\* the bytes of the array as far as a string function reads them: up to its
\* first NUL when the leading bytes hold one, the whole array otherwise
Chars(buf) ==
  IF \E k \in 1..Len(buf.head) : buf.head[k] = 0 THEN buf.head ELSE Array(buf)

\* buffer after chars were stored at indices idx, idx + 1, ... (0-based);
\* only the stores that fall inside the array change it
Store(buf, idx, chars) ==
  LET end == IF idx + Len(chars) <= BufSize THEN idx + Len(chars) ELSE BufSize
      hl == IF Len(buf.head) >= end THEN Len(buf.head) ELSE end
  IN  [head |-> [k \in 1..hl |->
                   IF (k - 1) >= idx /\ (k - 1) < idx + Len(chars)
                     THEN chars[k - idx] ELSE At(buf, k)],
       fill |-> buf.fill]

\* the characters of such a store that fall past the end of the array
Spill(idx, chars) ==
  IF idx + Len(chars) <= BufSize THEN <<>>
  ELSE SubSeq(chars, (IF idx >= BufSize THEN 0 ELSE BufSize - idx) + 1, Len(chars))

\* What a store past the end of buffer[] can lead to: the bytes land in
\* memory nothing else uses; the process is killed; the bytes are changed
\* by another store before the string is read back.  Which of them happens
\* is a property of the build: the compiled program gives the same result
\* each time it is run on the same source.
OverflowOutcomes == {"benign", "crash", "corrupt"}

\* the stream after n calls of fgetc(f) that each returned a character
Advance(f, n) ==
  IF n = 0 THEN f ELSE [f EXCEPT !.pushed = <<>>, !.pos = @ + n - Len(f.pushed)]

\* while (S(c = fgetc(file))) buffer[buffer_index++] = c;
\* run: the characters stored so far; c: the character that ended the loop;
\* the loop makes n + 1 calls of fgetc(), n the number of characters in S
\* at the head of the stream
ReadWhile(S, f, run) ==
  LET rest == Rest(f)
      stops == {k \in 1..Len(rest) : ToChar(rest[k]) \notin S}
      n == IF stops = {} THEN Len(rest) ELSE Least(stops) - 1
      r == fgetc(Advance(f, n))
  IN  [file |-> r.file, c |-> ToChar(r.ret),
       run |-> run \o [k \in 1..n |-> ToChar(rest[k])]]

(* --------------------------------- lex -------------------------------- *)
\* fopen() fails: return NULL
LexOpenFail ==
  /\ pc = "start"
  /\ ~fopen_ok
  /\ result' = "NULL"
  /\ pc' = "returned"
  /\ UNCHANGED <<build, ungetc_log, max_write, free_i, frees, first, src, fopen_ok, file, tokens, buffer, buffer_index, init_capacity, appends>>

\* mutant of LexOpenOk: the test of fopen()'s result is missing
LexOpenOk_unchecked ==
  /\ pc = "start"
  /\ file' = [state |-> "open", pos |-> 0, pushed |-> <<>>, closes |-> 0]
  /\ tokens' = create_token_list(InitCapacity)
  /\ init_capacity' = InitCapacity
  /\ buffer_index' = 0
  /\ pc' = "loop"
  /\ UNCHANGED <<build, ungetc_log, max_write, free_i, frees, first, src, fopen_ok, buffer, result, appends>>

\* mutant of LexOpenOk: the token list is one static list that every
\* invocation appends to
LexOpenOk_static_list ==
  /\ pc = "start"
  /\ fopen_ok
  /\ file' = [state |-> "open", pos |-> 0, pushed |-> <<>>, closes |-> 0]
  /\ tokens' = IF first = <<>> THEN create_token_list(InitCapacity)
               ELSE [create_token_list(2 * InitCapacity + Len(first[1])) EXCEPT
                       !.tokens = first[1], !.size = Len(first[1])]
  /\ init_capacity' = InitCapacity
  /\ buffer_index' = 0
  /\ pc' = "loop"
  /\ UNCHANGED <<build, ungetc_log, max_write, free_i, frees, first, src, fopen_ok, buffer, result, appends>>

\* fopen() succeeds: create_token_list(10), buffer_index = 0
LexOpenOk ==
  /\ pc = "start"
  /\ fopen_ok
  /\ file' = [state |-> "open", pos |-> 0, pushed |-> <<>>, closes |-> 0]
  /\ tokens' = create_token_list(InitCapacity)
  /\ init_capacity' = InitCapacity
  /\ buffer_index' = 0
  /\ pc' = "loop"
  /\ UNCHANGED <<build, ungetc_log, max_write, free_i, frees, first, src, fopen_ok, buffer, result, appends>>

\* add_token(tokens, type, value) called from the loop with the stream at f,
\* the scratch buffer holding buf_now/bi_now, and buf_after/bi_after once the
\* branch has finished
Emit(f, type, value, buf_now, bi_now, buf_after, bi_after) ==
  \E realloc_ok \in ReallocOutcomes(tokens) :
    LET r == add_token(tokens, type, value, realloc_ok)
    IN  /\ tokens' = r.list
        /\ file' = f
        /\ IF r.exited
             THEN /\ pc' = "exited"
                  /\ buffer' = buf_now
                  /\ buffer_index' = bi_now
                  /\ appends' = appends
             ELSE /\ pc' = "loop"
                  /\ buffer' = buf_after
                  /\ buffer_index' = bi_after
                  /\ appends' = appends + 1
        /\ UNCHANGED <<build, free_i, frees, first, src, fopen_ok, result, init_capacity>>

\* a store past the end of buffer[] kills the process
Crash(f, buf_now, bi_now) ==
  /\ pc' = "crashed"
  /\ file' = f
  /\ buffer' = buf_now
  /\ buffer_index' = bi_now
  /\ UNCHANGED <<build, free_i, frees, first, src, fopen_ok, tokens, result, init_capacity, appends>>

\* the string strcmp()/strdup() find at buffer after a run was stored
RunString(stored, spill, outcome) ==
  IF spill = <<>> THEN Chars(stored)
  ELSE IF outcome = "benign" THEN Array(stored) \o spill
  ELSE Array(stored) \o <<Garbage, 0>>

\* for (i = 0; i < sizeof(buffer); i++) buffer[i] = '\0';
Zeroed == [head |-> <<>>, fill |-> 0]

\* isspace(c): continue
StepSpace ==
  /\ pc = "loop"
  /\ LET r == fgetc(file)
         c == ToChar(r.ret)
     IN  /\ c # EOF
         /\ isspace(c)
         /\ file' = r.file
  /\ UNCHANGED <<build, ungetc_log, max_write, free_i, frees, first, src, fopen_ok, pc, tokens, buffer, buffer_index, result, init_capacity, appends>>

\* isalpha(c): the run is stored and classified; no ungetc()
StepAlpha ==
  /\ pc = "loop"
  /\ LET r == fgetc(file)
         c == ToChar(r.ret)
     IN  /\ c # EOF
         /\ ~isspace(c)
         /\ isalpha(c)
         /\ LET rr == ReadWhile(AlnumChars, r.file, <<c>>)
                chars == rr.run \o <<0>>
                stored == Store(buffer, buffer_index, chars)
                spill == Spill(buffer_index, chars)
                bi == buffer_index + Len(rr.run)
            IN  /\ max_write' = IF bi > max_write THEN bi ELSE max_write
                /\ ungetc_log' = ungetc_log
                /\ LET outcome == IF spill = <<>> THEN "benign" ELSE build
                   IN
                  IF outcome = "crash" THEN Crash(rr.file, stored, bi)
                  ELSE LET str == RunString(stored, spill, outcome)
                       IN  IF strcmp(str, Lit(<<"i", "n", "t">>)) = 0
                             THEN Emit(rr.file, "INT_KEYWORD", Lit(<<"i", "n", "t">>),
                                       stored, bi, Zeroed, 0)
                           ELSE IF strcmp(str, Lit(<<"r", "e", "t", "u", "r", "n">>)) = 0
                             THEN Emit(rr.file, "RETURN_KEYWORD",
                                       Lit(<<"r", "e", "t", "u", "r", "n">>),
                                       stored, bi, Zeroed, 0)
                           ELSE Emit(rr.file, "IDENTIFIER", str, stored, bi, Zeroed, 0)

\* isdigit(c): the run is stored, the character that ended it is pushed back
StepDigit ==
  /\ pc = "loop"
  /\ LET r == fgetc(file)
         c == ToChar(r.ret)
     IN  /\ c # EOF
         /\ ~isspace(c)
         /\ ~isalpha(c)
         /\ isdigit(c)
         /\ LET rr == ReadWhile(DigitChars, r.file, <<c>>)
                chars == rr.run \o <<0>>
                stored == Store(buffer, buffer_index, chars)
                spill == Spill(buffer_index, chars)
                bi == buffer_index + Len(rr.run)
                f == ungetc(rr.c, rr.file)
            IN  /\ max_write' = IF bi > max_write THEN bi ELSE max_write
                /\ LET outcome == IF spill = <<>> THEN "benign" ELSE build
                   IN
                  IF outcome = "crash"
                    THEN Crash(rr.file, stored, bi) /\ ungetc_log' = ungetc_log
                  ELSE /\ ungetc_log' = Append(ungetc_log, rr.c)
                       /\ Emit(f, "INT_LITERAL", RunString(stored, spill, outcome),
                            stored, bi, Zeroed, 0)

\* the type and the text the switch passes to add_token() for c
SingleType(c) ==
  CASE c = Code["("] -> "L_PARAN"
    [] c = Code[")"] -> "R_PARAN"
    [] c = Code["{"] -> "L_BRACE"
    [] c = Code["}"] -> "R_BRACE"
    [] c = Code[";"] -> "SEMICOLON"
    [] OTHER -> "UNKNOWN"

\* any other character: the switch
StepSingle ==
  /\ pc = "loop"
  /\ LET r == fgetc(file)
         c == ToChar(r.ret)
     IN  /\ c # EOF
         /\ ~isspace(c)
         /\ ~isalpha(c)
         /\ ~isdigit(c)
         /\ ungetc_log' = ungetc_log
         /\ IF SingleType(c) = "UNKNOWN"
              THEN LET stored == Store(buffer, 0, <<c, 0>>)
                   IN  /\ max_write' = IF 1 > max_write THEN 1 ELSE max_write
                       /\ Emit(r.file, "UNKNOWN", Chars(stored), stored, buffer_index,
                               stored, buffer_index)
              ELSE /\ max_write' = max_write
                   /\ Emit(r.file, SingleType(c), <<c, 0>>, buffer, buffer_index,
                           buffer, buffer_index)

\* mutant of LexEof: the fclose() call is missing
LexEof_no_close ==
  /\ pc = "loop"
  /\ LET r == fgetc(file)
         c == ToChar(r.ret)
     IN  /\ c = EOF
         /\ file' = r.file
  /\ pc' = "returned"
  /\ result' = "tokens"
  /\ UNCHANGED <<build, ungetc_log, max_write, free_i, frees, first, src, fopen_ok, tokens, buffer, buffer_index, init_capacity, appends>>

\* fgetc() gives EOF: fclose(file); return tokens
LexEof ==
  /\ pc = "loop"
  /\ LET r == fgetc(file)
         c == ToChar(r.ret)
     IN  /\ c = EOF
         /\ file' = fclose(r.file)
  /\ pc' = "returned"
  /\ result' = "tokens"
  /\ UNCHANGED <<build, ungetc_log, max_write, free_i, frees, first, src, fopen_ok, tokens, buffer, buffer_index, init_capacity, appends>>

\* the builds to tell apart for a source: they differ only where a run can
\* reach the end of buffer[]
BuildsFor(source) == IF Len(source) >= BufSize THEN OverflowOutcomes ELSE {"benign"}

Init ==
  /\ src \in Sources
  /\ fopen_ok \in BOOLEAN
  /\ pc = "start"
  /\ file = NoFile
  /\ tokens = NoList
  /\ buffer = [head |-> <<>>, fill |-> Garbage]
  /\ buffer_index = 0
  /\ result = "none"
  /\ init_capacity = 0
  /\ appends = 0
  /\ ungetc_log = <<>>
  /\ max_write = 0 - 1
  /\ free_i = 0
  /\ frees = <<>>
  /\ first = <<>>
  /\ build \in BuildsFor(src)

Next ==
  \/ LexOpenFail
  \/ LexOpenOk
  \/ StepSpace
  \/ StepAlpha
  \/ StepDigit
  \/ StepSingle
  \/ LexEof

Spec == Init /\ [][Next]_vars


(* ------------------------- lex() called twice ------------------------- *)
\* the bytes of a token text as they are written to a file
Bytes(text) == [k \in 1..Len(text) |-> (text[k] + 256) % 256]

RECURSIVE JoinTexts(_)
\* the texts of the tokens in order, with one space between two of them
JoinTexts(toks) ==
  IF toks = <<>> THEN <<>>
  ELSE IF Len(toks) = 1 THEN Bytes(toks[1].value)
  ELSE Bytes(toks[1].value) \o <<Code[" "]>> \o JoinTexts(Tail(toks))

\* a new invocation of lex() on the file holding new_src, once an
\* invocation has returned its list; the locals of lex() start afresh
Reinvoke(new_src) ==
  /\ pc = "returned"
  /\ result = "tokens"
  /\ first = <<>>
  /\ first' = <<tokens.tokens>>
  /\ src' = new_src
  /\ pc' = "start"
  /\ file' = NoFile
  /\ tokens' = NoList
  /\ buffer' = [head |-> <<>>, fill |-> Garbage]
  /\ buffer_index' = 0
  /\ result' = "none"
  /\ init_capacity' = 0
  /\ appends' = 0
  /\ UNCHANGED <<build, ungetc_log, max_write, free_i, frees, fopen_ok>>

\* lex() is called again on the same file
LexAgain == Reinvoke(src)

\* lex() is called on a file that holds the texts of the tokens it returned
LexRound == Reinvoke(JoinTexts(tokens.tokens))

NextAgain == Next \/ LexAgain

SpecAgain == Init /\ [][NextAgain]_vars

NextRound == Next \/ LexRound

SpecRound == Init /\ [][NextRound]_vars


(* ------------------------ a caller of TokenList ----------------------- *)
\* the tokens the caller appends
BufTokens == {<<"IDENTIFIER", Lit(<<"x">>)>>, <<"SEMICOLON", Lit(<<";">>)>>}

InitBuf ==
  /\ src = <<>>
  /\ fopen_ok = FALSE
  /\ pc = "buf_start"
  /\ file = NoFile
  /\ tokens = NoList
  /\ buffer = [head |-> <<>>, fill |-> Garbage]
  /\ buffer_index = 0
  /\ result = "none"
  /\ init_capacity = 0
  /\ appends = 0
  /\ ungetc_log = <<>>
  /\ max_write = 0 - 1
  /\ free_i = 0
  /\ frees = <<>>
  /\ first = <<>>
  /\ build = "benign"

\* create_token_list(c), c >= 1
BufCreate ==
  /\ pc = "buf_start"
  /\ \E c \in 1..MaxCap :
       /\ tokens' = create_token_list(c)
       /\ init_capacity' = c
  /\ pc' = "buf"
  /\ UNCHANGED <<build, ungetc_log, max_write, free_i, frees, first, src, fopen_ok, file, buffer, buffer_index, result, appends>>

\* add_token(list, type, value)
BufAppend ==
  /\ pc = "buf"
  /\ appends < MaxAppends
  /\ \E t \in BufTokens : \E realloc_ok \in ReallocOutcomes(tokens) :
       LET r == add_token(tokens, t[1], t[2], realloc_ok)
       IN  /\ tokens' = r.list
           /\ pc' = IF r.exited THEN "exited" ELSE "buf"
           /\ appends' = IF r.exited THEN appends ELSE appends + 1
  /\ UNCHANGED <<build, ungetc_log, max_write, free_i, frees, first, src, fopen_ok, file, buffer, buffer_index, result, init_capacity>>

\* the block a free() call releases: the text of token i, the tokens array,
\* the TokenList itself
ValueBlock(i) == [block |-> "value", index |-> i]
TokensBlock == [block |-> "tokens", index |-> 0]
ListBlock == [block |-> "list", index |-> 0]

\* the caller calls free_token_list(list): size_t i = 0
BufRelease ==
  /\ pc = "buf"
  /\ pc' = "free_loop"
  /\ free_i' = 0
  /\ UNCHANGED <<build, ungetc_log, max_write, frees, first, src, fopen_ok, file, tokens,
                 buffer, buffer_index, result, init_capacity, appends>>

\* i < list->size: free(list->tokens[i].value); i++
FreeValue ==
  /\ pc = "free_loop"
  /\ free_i < tokens.size
  /\ frees' = Append(frees, ValueBlock(free_i))
  /\ free_i' = free_i + 1
  /\ UNCHANGED <<build, ungetc_log, max_write, first, src, fopen_ok, pc, file, tokens,
                 buffer, buffer_index, result, init_capacity, appends>>

\* mutant of FreeStorage: the array is freed without waiting for the loop
FreeStorage_early ==
  /\ pc = "free_loop"
  /\ frees' = Append(frees, TokensBlock)
  /\ tokens' = [tokens EXCEPT !.storage = "freed"]
  /\ pc' = "free_list"
  /\ UNCHANGED <<build, ungetc_log, max_write, free_i, first, src, fopen_ok, file,
                 buffer, buffer_index, result, init_capacity, appends>>

\* the loop is over: free(list->tokens)
FreeStorage ==
  /\ pc = "free_loop"
  /\ ~(free_i < tokens.size)
  /\ frees' = Append(frees, TokensBlock)
  /\ tokens' = [tokens EXCEPT !.storage = "freed"]
  /\ pc' = "free_list"
  /\ UNCHANGED <<build, ungetc_log, max_write, free_i, first, src, fopen_ok, file,
                 buffer, buffer_index, result, init_capacity, appends>>

\* free(list)
FreeList ==
  /\ pc = "free_list"
  /\ frees' = Append(frees, ListBlock)
  /\ tokens' = [tokens EXCEPT !.alloc = FALSE]
  /\ pc' = "released"
  /\ UNCHANGED <<build, ungetc_log, max_write, free_i, first, src, fopen_ok, file,
                 buffer, buffer_index, result, init_capacity, appends>>

NextBuf ==
  \/ BufCreate
  \/ BufAppend
  \/ BufRelease
  \/ FreeValue
  \/ FreeStorage
  \/ FreeList

SpecBuf == InitBuf /\ [][NextBuf]_vars


(* ------------------------------- claims ------------------------------- *)
\* the characters at the head of the stream that belong to S
HeadRun(S) ==
  LET rest == Rest(file)
      stops == {k \in 1..Len(rest) : rest[k] \notin S}
  IN  SubSeq(rest, 1, IF stops = {} THEN Len(rest) ELSE Least(stops) - 1)

\* the stream without its first n characters
Drop(n) == SubSeq(Rest(file), n + 1, Len(Rest(file)))

\* a scan step is about to start on a letter / on a digit
AlphaLed == pc = "loop" /\ Rest(file) # <<>> /\ isalpha(Head(Rest(file)))
DigitLed == pc = "loop" /\ Rest(file) # <<>> /\ isdigit(Head(Rest(file)))

\* a scan step is about to start on a character of the single-character branch
SingleLed ==
  /\ pc = "loop"
  /\ Rest(file) # <<>>
  /\ LET c == ToChar(Head(Rest(file)))
     IN  c # EOF /\ ~isspace(c) /\ ~isalpha(c) /\ ~isdigit(c)

Tok(type, s) == [type |-> type, value |-> Str(s)]

\* C1: when an alphabetic-led alphanumeric run is ended by a character that
\* is neither alphanumeric nor the end of the stream, the scan step leaves
\* that character in the stream: it is the first one the next step reads.
C1_BreakCharNotConsumed ==
  [][(AlphaLed /\ Len(HeadRun(AlnumChars)) < Len(Rest(file)) /\ pc' = "loop")
       => Rest(file') = Drop(Len(HeadRun(AlnumChars)))]_vars

\* C2: scanning `int main() { return 0; }` returns exactly the nine tokens
\* INT_KEYWORD, IDENTIFIER "main", L_PARAN, R_PARAN, L_BRACE, RETURN_KEYWORD,
\* INT_LITERAL "0", SEMICOLON, R_BRACE, in this order.
C2_MainScenario ==
  (src = SrcMain /\ pc = "returned" /\ result = "tokens")
    => /\ tokens.size = 9
       /\ tokens.tokens =
            << Tok("INT_KEYWORD", <<"i", "n", "t">>),
               Tok("IDENTIFIER", <<"m", "a", "i", "n">>),
               Tok("L_PARAN", <<"(">>), Tok("R_PARAN", <<")">>),
               Tok("L_BRACE", <<"{">>),
               Tok("RETURN_KEYWORD", <<"r", "e", "t", "u", "r", "n">>),
               Tok("INT_LITERAL", <<"0">>), Tok("SEMICOLON", <<";">>),
               Tok("R_BRACE", <<"}">>) >>

\* C3: scanning `x12=3;` returns exactly the four tokens IDENTIFIER "x12",
\* UNKNOWN "=", INT_LITERAL "3", SEMICOLON, in this order.
C3_AssignScenario ==
  (src = SrcAssign /\ pc = "returned" /\ result = "tokens")
    => /\ tokens.size = 4
       /\ tokens.tokens =
            << Tok("IDENTIFIER", <<"x", "1", "2">>), Tok("UNKNOWN", <<"=">>),
               Tok("INT_LITERAL", <<"3">>), Tok("SEMICOLON", <<";">>) >>

\* C4: for every source, a scan step that starts on a digit appends exactly
\* one INT_LITERAL token whose text is the whole maximal digit run, and
\* leaves the character that ends the run in the stream for the next step
\* (a step ended by the fatal exit of a failed reallocation apart).
C4_DigitRunOneLiteral ==
  [][(DigitLed /\ pc' # "exited")
       => /\ pc' = "loop"
          /\ tokens'.size = tokens.size + 1
          /\ tokens'.tokens =
               Append(tokens.tokens,
                      [type |-> "INT_LITERAL", value |-> HeadRun(DigitChars)])
          /\ Rest(file') = Drop(Len(HeadRun(DigitChars)))]_vars

\* C5: for every source, a scan step that starts on a letter and whose
\* maximal alphanumeric run is neither "int" nor "return" appends exactly
\* one IDENTIFIER token whose text is the whole run (a step ended by the
\* fatal exit of a failed reallocation apart).
C5_AlphaRunOneIdentifier ==
  [][(/\ AlphaLed
      /\ HeadRun(AlnumChars) \notin {Str(<<"i", "n", "t">>),
                                     Str(<<"r", "e", "t", "u", "r", "n">>)}
      /\ pc' # "exited")
       => /\ pc' = "loop"
          /\ tokens'.size = tokens.size + 1
          /\ tokens'.tokens =
               Append(tokens.tokens,
                      [type |-> "IDENTIFIER", value |-> HeadRun(AlnumChars)])]_vars

\* the kind an exact comparison of the completed run gives
KeywordKind(run) ==
  IF run = Str(<<"i", "n", "t">>) THEN "INT_KEYWORD"
  ELSE IF run = Str(<<"r", "e", "t", "u", "r", "n">>) THEN "RETURN_KEYWORD"
  ELSE "IDENTIFIER"

\* C6: the kind of the token a scan step that starts on a letter appends is
\* decided by an exact comparison of the completed run: INT_KEYWORD for
\* "int", RETURN_KEYWORD for "return", IDENTIFIER for every other run.
C6_KeywordExact ==
  [][(AlphaLed /\ pc' # "exited")
       => /\ Len(tokens'.tokens) = Len(tokens.tokens) + 1
          /\ tokens'.tokens[Len(tokens'.tokens)].type
               = KeywordKind(HeadRun(AlnumChars))]_vars

\* space, tab, newline, vertical tab, form feed, carriage return
WhitespaceChars == {Code[" "], Code["\t"], Code["\n"], 11, 12, 13}

WhitespaceOnly == \A k \in 1..Len(src) : src[k] \in WhitespaceChars

\* C7: for a source of whitespace characters only, the empty source
\* included, the scan does not fail and returns an empty token list.
C7_WhitespaceOnlyEmpty ==
  (fopen_ok /\ WhitespaceOnly)
    => /\ pc \in {"start", "loop", "returned"}
       /\ tokens.size = 0
       /\ tokens.tokens = <<>>
       /\ (pc = "returned" => result = "tokens" /\ tokens.alloc)

C7_Witness ==
  /\ fopen_ok
  /\ WhitespaceOnly
  /\ Len(src) >= 2
  /\ \E k \in 1..Len(src) : src[k] = Code["\n"]
  /\ pc = "returned"
  /\ result = "tokens"

\* C8: every character that reaches the single-character branch and is none
\* of ( ) { } ; makes the step append exactly one UNKNOWN token whose text
\* is that one character; the scan does not stop and goes on with the
\* character that follows (the fatal exit of a failed reallocation apart).
C8_UnknownOneChar ==
  [][(/\ SingleLed
      /\ SingleType(ToChar(Head(Rest(file)))) = "UNKNOWN"
      /\ pc' # "exited")
       => /\ pc' = "loop"
          /\ tokens'.size = tokens.size + 1
          /\ tokens'.tokens =
               Append(tokens.tokens,
                      [type |-> "UNKNOWN", value |-> <<ToChar(Head(Rest(file)))>>])
          /\ Rest(file') = Drop(1)]_vars

\* the smallest c * 2^n that is at least k
MinCapacity(c, k) == Least({c * (2 ^ n) : n \in 0..k} \cap {m \in 0..(c * (2 ^ k)) : m >= k})

\* C9: for a token list created with capacity c >= 1, after k appends the
\* size is k, size <= capacity in every state, the capacity is the smallest
\* c * 2^n that is >= k (c itself when k <= c), and the capacity changes
\* only by doubling and only in an append made when size equals capacity.
C9_Growth ==
  /\ [](pc \in {"buf", "exited"}
          => /\ tokens.size = appends
             /\ Len(tokens.tokens) = appends
             /\ tokens.size <= tokens.capacity
             /\ (pc = "buf" => tokens.capacity = MinCapacity(init_capacity, appends)))
  /\ [][(pc = "buf" /\ tokens'.capacity # tokens.capacity)
          => /\ tokens'.capacity = 2 * tokens.capacity
             /\ tokens.size = tokens.capacity]_vars

C9_Witness ==
  /\ pc = "buf"
  /\ init_capacity = 3
  /\ appends = 7
  /\ tokens.capacity = 12

\* C10: when the source cannot be opened, the scan returns NULL, no token
\* list is created and no token is appended.
C10_OpenFailure ==
  ~fopen_ok
    => /\ pc \in {"start", "returned"}
       /\ (pc = "returned" => result = "NULL")
       /\ ~tokens.alloc
       /\ tokens.size = 0
       /\ tokens.tokens = <<>>
       /\ appends = 0

C10_Witness == ~fopen_ok /\ pc = "returned" /\ result = "NULL"


PunctChar(type) ==
  CASE type = "L_PARAN" -> Code["("]
    [] type = "R_PARAN" -> Code[")"]
    [] type = "L_BRACE" -> Code["{"]
    [] type = "R_BRACE" -> Code["}"]
    [] type = "SEMICOLON" -> Code[";"]

\* C11: in every state of a scan, every token of the list has a non-empty
\* text; a punctuation token's text is its one matched character; every
\* character of an INT_LITERAL text is a decimal digit; an IDENTIFIER text
\* starts with a letter and continues with letters and digits.
C11_TokenTextInvariant ==
  \A i \in 1..Len(tokens.tokens) :
    LET t == tokens.tokens[i]
    IN  /\ t.value # <<>>
        /\ (t.type \in {"L_PARAN", "R_PARAN", "L_BRACE", "R_BRACE", "SEMICOLON"}
              => t.value = <<PunctChar(t.type)>>)
        /\ (t.type = "INT_LITERAL" => \A k \in 1..Len(t.value) : isdigit(t.value[k]))
        /\ (t.type = "IDENTIFIER"
              => /\ isalpha(t.value[1])
                 /\ \A k \in 2..Len(t.value) : isalnum(t.value[k]))

\* C12: when the end of the stream is reached inside a letter run or a digit
\* run, the scan step still appends the token with the whole run as its
\* text, and it makes no ungetc() call (the fatal exit of a failed
\* reallocation apart).
C12_RunAtEndOfStream ==
  [][(/\ pc' # "exited"
      /\ \/ AlphaLed /\ HeadRun(AlnumChars) = Rest(file)
         \/ DigitLed /\ HeadRun(DigitChars) = Rest(file))
       => /\ pc' = "loop"
          /\ Len(tokens'.tokens) = Len(tokens.tokens) + 1
          /\ tokens'.tokens[Len(tokens'.tokens)].value = Rest(file)
          /\ ungetc_log' = ungetc_log]_vars


\* C13: free_token_list() on a list of n tokens frees the n texts, each
\* exactly once, then the tokens array, then the list itself, in this
\* order; no block is freed twice and none is left.
C13_ReleaseOrder ==
  /\ \A j, k \in 1..Len(frees) : frees[j] = frees[k] => j = k
  /\ (pc = "released"
        => frees = [k \in 1..appends |-> ValueBlock(k - 1)] \o <<TokensBlock, ListBlock>>)
  /\ (pc \in {"free_loop", "free_list"}
        => \E m \in 0..Len(frees) :
             frees = SubSeq([k \in 1..appends |-> ValueBlock(k - 1)]
                              \o <<TokensBlock, ListBlock>>, 1, m))

C13_Witness == pc = "released" /\ appends >= 3 /\ Len(frees) = appends + 2


\* C14: when realloc() fails in add_token(), the process exits: the call
\* does not return, no token is inserted into the list whose storage could
\* not be grown, and nothing runs afterwards.
C14_ReallocFailureFatal ==
  /\ [](tokens.storage = "NULL"
          => /\ pc = "exited"
             /\ tokens.size = appends
             /\ Len(tokens.tokens) = appends)
  /\ [][(tokens'.storage = "NULL" /\ tokens.storage # "NULL")
          => /\ pc' = "exited"
             /\ appends' = appends
             /\ tokens'.size = tokens.size
             /\ tokens'.tokens = tokens.tokens]_vars
  /\ [][pc # "exited"]_vars

C14_Witness == pc = "exited" /\ tokens.storage = "NULL" /\ appends >= 2

\* C15: when lex() returns, the file it opened is not open any more: a file
\* that was opened has been closed exactly once, and when fopen() failed
\* there is nothing to close.
C15_ClosedAtReturn ==
  pc = "returned"
    => /\ file.state # "open"
       /\ (fopen_ok => file.state = "closed" /\ file.closes = 1)
       /\ (~fopen_ok => file.state = "none" /\ file.closes = 0)

C15_Witness ==
  /\ pc = "returned"
  /\ fopen_ok
  /\ file.state = "closed"
  /\ file.closes = 1
  /\ tokens.size >= 2


\* C16: for every source, scanning the texts of the returned tokens joined
\* with single spaces returns the same sequence of token kinds and texts
\* as the first scan.
C16_RoundTrip ==
  (first # <<>> /\ pc = "returned" /\ result = "tokens")
    => tokens.tokens = first[1]

C18_ReturnsAtEndOfStream ==
  /\ []((pc = "returned" /\ result = "tokens") => Rest(file) = <<>>)
  /\ [](pc # "crashed")
  /\ [][(pc = "loop" /\ pc' = "loop") => Len(Rest(file')) < Len(Rest(file))]_vars

RECURSIVE ConcatTexts(_)
\* the texts of the tokens one after the other
ConcatTexts(toks) ==
  IF toks = <<>> THEN <<>> ELSE Bytes(Head(toks).value) \o ConcatTexts(Tail(toks))

NotWhitespace(b) == b \notin WhitespaceChars

\* C19: after a successful scan the texts of the tokens, concatenated in
\* list order, are the source without its whitespace characters.
C19_TextsCoverSource ==
  (pc = "returned" /\ result = "tokens")
    => ConcatTexts(tokens.tokens) = SelectSeq(src, NotWhitespace)

\* C20: every store the scan makes into buffer[], the terminating NUL
\* included, is at an index from 0 to 255, and buffer_index is 0 whenever
\* a step of the loop starts.
C20_WritesInBounds ==
  /\ max_write <= BufSize - 1
  /\ (pc = "loop" => buffer_index = 0)

====
